---- MODULE Spec2Model ----
(***************************************************************************)
(* A model of server.js: the e-commerce backend (product, order and        *)
(* settings routes over a document store, the shipping estimator, and the  *)
(* payment route over an external payment processor).                      *)
(*                                                                         *)
(* Numbers.  JavaScript numbers are doubles; the model uses integers in    *)
(* fixed units chosen so that the modelled computations are exact:         *)
(*   - a distance is counted in eighths of a mile (a dyadic fraction, so   *)
(*     5 + d * 0.5 and its product with 100 are exact doubles);            *)
(*   - a money amount is counted in cents; the unrounded shipping cost in  *)
(*     sixteenths of a dollar;                                             *)
(*   - coordinates are hundredths of a degree; radians, sines and cosines  *)
(*     are fixed-point numbers with FP units to 1.                         *)
(* The transcendental functions of calculateDistance are polynomial        *)
(* approximations evaluated in FP fixed point with sign-symmetric          *)
(* round-to-nearest (RDiv), as IEEE-754 arithmetic and the Math functions  *)
(* are sign-symmetric.                                                     *)
(***************************************************************************)
EXTENDS Integers, Sequences, FiniteSets, TLC

VARIABLES
    procState,          \* "starting" | "listening" | "exited"
    connState,          \* position of connectMongoDB()
    db,                 \* let db                   (TRUE once assigned)
    productsCollection, \* let productsCollection   (TRUE once assigned)
    ordersCollection,   \* let ordersCollection     (TRUE once assigned)
    settingsCollection, \* let settingsCollection   (TRUE once assigned)
    storeUp,            \* whether the document store answers operations
    products,           \* the products collection: _id -> document
    orders,             \* the orders collection:   _id -> document
    settings,           \* the settings collection: << >> or <<doc with _id 'store'>>
    nextId,             \* the next ObjectId the store hands out
    now,                \* Date.now(), in clock ticks
    pending,            \* payment requests awaiting paymentsApi.createPayment
    last,               \* the last response sent, with what its handler called
    probe               \* argument/result record of the pure-function specifications

vars == <<procState, connState, db, productsCollection, ordersCollection,
          settingsCollection, storeUp, products, orders, settings, nextId,
          now, pending, last, probe>>

serverVars == <<procState, connState, db, productsCollection, ordersCollection,
                settingsCollection, storeUp, products, orders, settings, nextId,
                now, pending, last>>

----------------------------------------------------------------------------
(* Arithmetic helpers *)

Abs(x) == IF x < 0 THEN -x ELSE x

Sgn(x) == IF x < 0 THEN -1 ELSE 1

\* a / b rounded to the nearest integer, ties away from zero: sign-symmetric,
\* as a correctly rounded floating-point operation is.
RDiv(a, b) == Sgn(a) * ((Abs(a) + (b \div 2)) \div b)

\* Math.round(a / b) for integers a, b > 0 ... JavaScript rounds ties up.
MathRound(a, b) == (2 * a + b) \div (2 * b)

\* fixed-point unit of the trigonometric computations
FP == 10000

\* Math.PI in FP units
PI_FP == 31416

RECURSIVE IsqrtIn(_, _, _)
IsqrtIn(n, lo, hi) ==
    IF lo >= hi THEN lo
    ELSE LET mid == (lo + hi + 1) \div 2
         IN  IF mid * mid <= n THEN IsqrtIn(n, mid, hi) ELSE IsqrtIn(n, lo, mid - 1)

\* Math.sqrt of an FP number in [0, 1], to the nearest FP unit
MathSqrt(a) ==
    LET n == a * FP
        r == IsqrtIn(n, 0, FP)
    IN  IF (r + 1) * (r + 1) - n < n - r * r THEN r + 1 ELSE r

\* sine of an FP angle in [0, pi/2]: the Taylor polynomial to x^7 in Horner
\* form, x (1 - x^2/6 (1 - x^2/20 (1 - x^2/42)))
SinQ(x) ==
    LET x2 == RDiv(x * x, FP)
        t3 == FP - RDiv(x2, 42)
        t2 == FP - RDiv(RDiv(x2 * t3, FP), 20)
        t1 == FP - RDiv(RDiv(x2 * t2, FP), 6)
    IN  RDiv(x * t1, FP)

\* Math.sin of an FP angle in [-pi, pi]: odd, and sin(x) = sin(pi - x)
MathSin(x) ==
    LET ax == Abs(x)
        r  == IF 2 * ax > PI_FP THEN PI_FP - ax ELSE ax
    IN  Sgn(x) * SinQ(r)

\* Math.cos of an FP angle in [-pi/2, pi/2]: even; the Taylor polynomial to
\* x^8 in Horner form, 1 - x^2/2 (1 - x^2/12 (1 - x^2/30 (1 - x^2/56)))
MathCos(x) ==
    LET x2 == RDiv(x * x, FP)
        t4 == FP - RDiv(x2, 56)
        t3 == FP - RDiv(RDiv(x2 * t4, FP), 30)
        t2 == FP - RDiv(RDiv(x2 * t3, FP), 12)
    IN  FP - RDiv(RDiv(x2 * t2, FP), 2)

\* arctangent of an FP ratio z in [0, 1]: the polynomial
\* z (0.9999 - 0.3303 z^2 + 0.1801 z^4 - 0.0851 z^6 + 0.0208 z^8) in Horner form
AtanUnit(z) ==
    LET z2 == RDiv(z * z, FP)
        p4 == 208
        p3 == RDiv(z2 * p4, FP) - 851
        p2 == RDiv(z2 * p3, FP) + 1801
        p1 == RDiv(z2 * p2, FP) - 3303
        p0 == RDiv(z2 * p1, FP) + 9999
    IN  RDiv(z * p0, FP)

\* Math.atan2(y, x) for y, x >= 0 in FP units (both are square roots here)
MathAtan2(y, x) ==
    IF y = 0 THEN 0
    ELSE IF x = 0 THEN PI_FP \div 2
    ELSE IF y <= x THEN AtanUnit(RDiv(y * FP, x))
    ELSE (PI_FP \div 2) - AtanUnit(RDiv(x * FP, y))

----------------------------------------------------------------------------
(* server.js 18-31: configuration *)

\* STORE_LOCATION, hundredths of a degree
STORE_LOCATION == [lat |-> 3585, lng |-> -10332]

\* SHIPPING_RATES.baseRate, sixteenths of a dollar (5.00)
baseRate16 == 80

\* SHIPPING_RATES.maxRate, sixteenths of a dollar (50.00)
maxRate16 == 800

\* SHIPPING_RATES.freeShippingThreshold, cents (150.00)
freeShippingThreshold == 15000

\* Earth's radius in miles
R == 3959

----------------------------------------------------------------------------
(* server.js 42-52: calculateDistance (haversine).  Coordinates in         *)
(* hundredths of a degree; the result in eighths of a mile.  At FP = 10^4  *)
(* the haversine term a is resolved to 10^-4, so a result is within a few  *)
(* percent of the double-precision one.                                    *)

\* the result of a computation on the square root of a negative number
NaN == -1

\* deg * Math.PI / 180, from hundredths of a degree to FP radians
ToRad(deg) == RDiv(deg * PI_FP, 18000)

calculateDistance_cos1(lat1, lon1, lat2, lon2) ==
    LET dLat == ToRad(lat2 - lat1)
        dLon == ToRad(lon2 - lon1)
        sLat == MathSin(RDiv(dLat, 2))
        sLon == MathSin(RDiv(dLon, 2))
        a    == RDiv(sLat * sLat, FP)
                  + RDiv(RDiv(RDiv(MathCos(ToRad(lat1)) * MathCos(ToRad(lat1)), FP)
                                * sLon, FP) * sLon, FP)
    IN  IF a > FP THEN NaN     \* Math.sqrt(1 - a) of a negative number
        ELSE RDiv(R * 8 * 2 * MathAtan2(MathSqrt(a), MathSqrt(FP - a)), FP)

calculateDistance(lat1, lon1, lat2, lon2) ==
    LET dLat == ToRad(lat2 - lat1)
        dLon == ToRad(lon2 - lon1)
        sLat == MathSin(RDiv(dLat, 2))
        sLon == MathSin(RDiv(dLon, 2))
        a    == RDiv(sLat * sLat, FP)
                  + RDiv(RDiv(RDiv(MathCos(ToRad(lat1)) * MathCos(ToRad(lat2)), FP)
                                * sLon, FP) * sLon, FP)
    IN  IF a > FP THEN NaN     \* Math.sqrt(1 - a) of a negative number
        ELSE RDiv(R * 8 * 2 * MathAtan2(MathSqrt(a), MathSqrt(FP - a)), FP)

----------------------------------------------------------------------------
(* server.js 78-93: calculateShippingCost.  distance in eighths of a mile; *)
(* subtotal is << >> (undefined) or <<cents>>; the result in cents.        *)

\* JavaScript subtotal >= threshold: false when subtotal is undefined
NumGE(v, n) == Len(v) = 1 /\ v[1] >= n

calculateShippingCost_gt(distance, subtotal) ==
    IF Len(subtotal) = 1 /\ subtotal[1] > freeShippingThreshold THEN 0
    ELSE LET cost   == baseRate16 + distance    \* 5.00 + distance * 0.50
             capped == IF cost > maxRate16 THEN maxRate16 ELSE cost
         IN  MathRound(capped * 100, 16)

calculateShippingCost(distance, subtotal) ==
    IF NumGE(subtotal, freeShippingThreshold) THEN 0
    ELSE LET cost   == baseRate16 + distance    \* 5.00 + distance * 0.50
             capped == IF cost > maxRate16 THEN maxRate16 ELSE cost
         IN  MathRound(capped * 100, 16)

----------------------------------------------------------------------------
(* Bounds of the model *)

\* documents the store ever hands an _id to
MaxDocs == 2

\* clock ticks Date.now() advances through
MaxClock == 1

\* payment requests awaiting the processor at one time
MaxPending == 1

\* largest distance (eighths of a mile) given to calculateShippingCost
MaxDistance == 800

\* steps of the coordinate grid given to calculateDistance
GridN == 4

----------------------------------------------------------------------------
(* Values of requests and documents *)

\* a field the request does not carry (JavaScript undefined)
Absent == "<undefined>"

\* JavaScript !v for a string or undefined
Falsy(v) == v \in {Absent, ""}

\* An id string as a route parameter or body field carries it: its length,
\* whether every character is a hex digit, and (when it is a well-formed
\* ObjectId) the store key it denotes.  len = 0 is the empty/absent string.
NoId == [len |-> 0, hex |-> TRUE, key |-> 0]

ReqIds ==
    {[len |-> 24, hex |-> TRUE, key |-> k] : k \in 1..MaxDocs}
      \cup {[len |-> 23, hex |-> TRUE, key |-> 1], [len |-> 24, hex |-> FALSE, key |-> 1]}

\* ObjectId.isValid(id) for a string: 24 hex digits (bson releases before 6
\* also take any 12-byte string; the requests here carry none)
ObjectId_isValid_any24(id) == id.len = 24

ObjectId_isValid(id) == id.len = 24 /\ id.hex

Subtotals == {<< >>, <<0>>, <<14999>>, <<15000>>, <<15001>>}

\* the subtotals of the shipping requests
RequestSubtotals == {<< >>, <<14999>>, <<15000>>}

ClientOrderNumbers == {<<"A-", 1>>}

PaymentStatuses == {"COMPLETED", "APPROVED", "FAILED", "PENDING"}

PaymentIds == {"pay_1"}

\* the well-formed id of the first document
FirstId == [len |-> 24, hex |-> TRUE, key |-> 1]

\* payment requests: complete ones for each orderId, and ones with a field
\* undefined or the amount 0
PaymentReqs ==
    {[sourceId |-> "cnon", amount |-> <<10>>, orderId |-> id] : id \in ReqIds}
      \cup {[sourceId |-> Absent, amount |-> <<10>>, orderId |-> FirstId],
             [sourceId |-> "cnon", amount |-> << >>, orderId |-> FirstId],
             [sourceId |-> "cnon", amount |-> <<0>>, orderId |-> FirstId],
             [sourceId |-> "cnon", amount |-> <<10>>, orderId |-> NoId]}

\* what the geocoding service may answer a request with
GeoPoints ==
    {STORE_LOCATION, [lat |-> 3600, lng |-> -10300], [lat |-> 4071, lng |-> -7401]}

\* the request throws (unreachable, an error status, a malformed payload),
\* answers with zero results, or answers with results[0] at a point
GeoOutcomes ==
    {[kind |-> "throw", at |-> STORE_LOCATION], [kind |-> "zero", at |-> STORE_LOCATION]}
      \cup {[kind |-> "ok", at |-> p] : p \in GeoPoints}

\* shipping requests: a complete address with each subtotal, and addresses
\* with one field undefined, one field empty, or every field undefined
CompleteAddress ==
    [address |-> "1 Main St", city |-> "Meeker", state |-> "OK",
     zipCode |-> "74855", country |-> Absent]

WithSubtotal(a, sub) ==
    [address |-> a.address, city |-> a.city, state |-> a.state,
     zipCode |-> a.zipCode, country |-> a.country, subtotal |-> sub]

ShipReqs ==
    {WithSubtotal(CompleteAddress, sub) : sub \in RequestSubtotals}
      \cup {WithSubtotal([CompleteAddress EXCEPT ![f] = v], <<0>>) :
              f \in {"address", "city", "state", "zipCode"}, v \in {Absent, ""}}
      \cup {WithSubtotal([address |-> Absent, city |-> Absent, state |-> Absent,
                          zipCode |-> Absent, country |-> Absent], << >>)}

\* the documents of a collection in natural (insertion, i.e. _id) order
RECURSIVE ToArray(_)
ToArray(coll) ==
    IF DOMAIN coll = {} THEN << >>
    ELSE LET k == CHOOSE i \in DOMAIN coll : \A j \in DOMAIN coll : i <= j
         IN  <<[_id |-> k, doc |-> coll[k]]>>
               \o ToArray([i \in DOMAIN coll \ {k} |-> coll[i]])

\* res.status(status).json(body), with the calls the handler made
Respond(route, status, body, calls, processor) ==
    last' = [route |-> route, status |-> status, body |-> body,
             calls |-> calls, processor |-> processor]

DbNotConnected == [error |-> "Database not connected"]

\* error.message of a rejected store operation
StoreError == [error |-> "store operation failed"]

NoResponse ==
    [route |-> "none", status |-> 0, body |-> [none |-> TRUE], calls |-> {},
     processor |-> "none"]

----------------------------------------------------------------------------
(* Initial state: the module has been loaded, app.listen not yet called back *)

InitServer ==
    /\ procState = "starting"
    /\ connState = "idle"
    /\ db = FALSE
    /\ productsCollection = FALSE
    /\ ordersCollection = FALSE
    /\ settingsCollection = FALSE
    /\ storeUp \in BOOLEAN
    /\ products = << >>
    /\ orders = << >>
    /\ settings = << >>
    /\ nextId = 1
    /\ now = 0
    /\ pending = {}
    /\ last = NoResponse

Init == InitServer /\ probe = [fn |-> "none"]

----------------------------------------------------------------------------
(* server.js 516-533: process lifecycle; 479-513: connectMongoDB *)

Serving == procState = "listening"

\* app.listen's callback: the server listens and connectMongoDB() runs up to
\* its first await (MongoClient.connect)
Listen ==
    /\ procState = "starting"
    /\ procState' = "listening"
    /\ connState' = "connecting"
    /\ UNCHANGED <<db, productsCollection, ordersCollection, settingsCollection,
                   storeUp, products, orders, settings, nextId, now, pending,
                   last, probe>>

\* MongoClient.connect resolves: the four handles are assigned in one turn
ConnectResolve ==
    /\ Serving /\ connState = "connecting" /\ storeUp
    /\ db' = TRUE
    /\ productsCollection' = TRUE
    /\ ordersCollection' = TRUE
    /\ settingsCollection' = TRUE
    /\ connState' = "verify"
    /\ UNCHANGED <<procState, storeUp, products, orders, settings, nextId, now,
                   pending, last, probe>>

\* MongoClient.connect rejects: the outer catch logs, the handles stay unset
ConnectReject ==
    /\ Serving /\ connState = "connecting" /\ ~storeUp
    /\ connState' = "failed"
    /\ UNCHANGED <<procState, db, productsCollection, ordersCollection,
                   settingsCollection, storeUp, products, orders, settings,
                   nextId, now, pending, last, probe>>

\* the three test findOne calls; their failure is caught and logged
ConnectVerify ==
    /\ Serving /\ connState = "verify"
    /\ connState' = "initFind"
    /\ UNCHANGED <<procState, db, productsCollection, ordersCollection,
                   settingsCollection, storeUp, products, orders, settings,
                   nextId, now, pending, last, probe>>

\* settingsCollection.findOne({_id: 'store'})
ConnectInitFind ==
    /\ Serving /\ connState = "initFind"
    /\ connState' = IF ~storeUp THEN "failed"
                    ELSE IF settings # << >> THEN "ready" ELSE "initInsert"
    /\ UNCHANGED <<procState, db, productsCollection, ordersCollection,
                   settingsCollection, storeUp, products, orders, settings,
                   nextId, now, pending, last, probe>>

\* settingsCollection.insertOne({_id: 'store', theme: 'default'}); a store
\* failure or a duplicate key (a theme was upserted meanwhile) is caught
ConnectInitInsert ==
    /\ Serving /\ connState = "initInsert"
    /\ IF storeUp /\ settings = << >>
       THEN /\ settings' = <<[theme |-> "default", updatedAt |-> <<>>]>>
            /\ connState' = "ready"
       ELSE /\ settings' = settings
            /\ connState' = "failed"
    /\ UNCHANGED <<procState, db, productsCollection, ordersCollection,
                   settingsCollection, storeUp, products, orders, nextId, now,
                   pending, last, probe>>

\* SIGTERM: server.close, then process.exit(0)
Sigterm ==
    /\ Serving
    /\ procState' = "exited"
    /\ pending' = {}
    /\ UNCHANGED <<connState, db, productsCollection, ordersCollection,
                   settingsCollection, storeUp, products, orders, settings,
                   nextId, now, last, probe>>

(* The environment: the store becomes unreachable or reachable again, and  *)
(* the clock advances.                                                     *)

StoreDown ==
    /\ Serving /\ storeUp
    /\ storeUp' = FALSE
    /\ UNCHANGED <<procState, connState, db, productsCollection, ordersCollection,
                   settingsCollection, products, orders, settings, nextId, now,
                   pending, last, probe>>

StoreBack ==
    /\ Serving /\ ~storeUp
    /\ storeUp' = TRUE
    /\ UNCHANGED <<procState, connState, db, productsCollection, ordersCollection,
                   settingsCollection, products, orders, settings, nextId, now,
                   pending, last, probe>>

Tick ==
    /\ Serving /\ now < MaxClock
    /\ now' = now + 1
    /\ UNCHANGED <<procState, connState, db, productsCollection, ordersCollection,
                   settingsCollection, storeUp, products, orders, settings,
                   nextId, pending, last, probe>>

\* what a request handler that only answers leaves alone
OnlyResponds ==
    UNCHANGED <<procState, connState, db, productsCollection, ordersCollection,
                settingsCollection, storeUp, products, orders, settings, nextId,
                now, pending, probe>>

\* what a handler that writes the products collection leaves alone
ProductsFrame ==
    UNCHANGED <<procState, connState, db, productsCollection, ordersCollection,
                settingsCollection, storeUp, orders, settings, now, pending, probe>>

\* what a handler that writes the orders collection leaves alone
OrdersFrame ==
    UNCHANGED <<procState, connState, db, productsCollection, ordersCollection,
                settingsCollection, storeUp, products, settings, now, probe>>

----------------------------------------------------------------------------
(* server.js 103-110, 451-476: routes that never touch the store *)

Health ==
    /\ Serving
    /\ Respond("GET /api/health", 200,
               [status |-> "Server is running",
                db |-> IF db THEN "Connected" ELSE "Not Connected",
                timestamp |-> now], {}, "none")
    /\ OnlyResponds

PaymentsConfig ==
    /\ Serving
    /\ Respond("GET /api/payments/config", 200,
               [squareApplicationId |-> "YOUR_APP_ID",
                locationId |-> "YOUR_LOCATION_ID"], {}, "none")
    /\ OnlyResponds

\* express.static and GET /: a file of the site
Static ==
    /\ Serving
    /\ Respond("GET /", 200, [file |-> "index.html"], {}, "none")
    /\ OnlyResponds

\* the final app.use: JSON 404 for an unmatched /api path, the entry document
\* with status 404 for any other path
NotFound(isApi) ==
    /\ Serving
    /\ IF isApi
       THEN Respond("unmatched /api", 404,
                    [error |-> "API endpoint not found", path |-> "/api/nope",
                     method |-> "GET"], {}, "none")
       ELSE Respond("unmatched path", 404, [file |-> "index.html"], {}, "none")
    /\ OnlyResponds

----------------------------------------------------------------------------
(* server.js 112-211: product routes *)

\* without the key k
Without(coll, k) == [i \in DOMAIN coll \ {k} |-> coll[i]]

GetProducts ==
    /\ Serving
    /\ IF ~productsCollection
       THEN Respond("GET /api/products", 503, DbNotConnected, {}, "none")
       ELSE IF ~storeUp
       THEN Respond("GET /api/products", 500, StoreError,
                    {"productsCollection.find"}, "none")
       ELSE Respond("GET /api/products", 200, [array |-> ToArray(products)],
                    {"productsCollection.find"}, "none")
    /\ OnlyResponds

PostProduct(name, description, price) ==
    /\ Serving
    /\ IF ~productsCollection
       THEN /\ Respond("POST /api/products", 503, DbNotConnected, {}, "none")
            /\ UNCHANGED <<products, nextId>>
       ELSE IF Falsy(name) \/ Falsy(description) \/ price = << >>
       THEN /\ Respond("POST /api/products", 400,
                       [error |-> "Missing required fields"], {}, "none")
            /\ UNCHANGED <<products, nextId>>
       ELSE IF ~storeUp
       THEN /\ Respond("POST /api/products", 500, StoreError,
                       {"productsCollection.insertOne"}, "none")
            /\ UNCHANGED <<products, nextId>>
       ELSE /\ nextId <= MaxDocs
            /\ LET newProduct == [name |-> name, description |-> description,
                                  price |-> price, emoji |-> "default",
                                  createdAt |-> now]
               IN  /\ products' = products @@ (nextId :> newProduct)
                   /\ Respond("POST /api/products", 201,
                              [_id |-> nextId, doc |-> newProduct],
                              {"productsCollection.insertOne"}, "none")
            /\ nextId' = nextId + 1
    /\ ProductsFrame

DeleteProduct(id) ==
    /\ Serving
    /\ IF ~productsCollection
       THEN /\ Respond("DELETE /api/products/:id", 503, DbNotConnected, {}, "none")
            /\ UNCHANGED products
       ELSE IF ~ObjectId_isValid(id)
       THEN /\ Respond("DELETE /api/products/:id", 400,
                       [error |-> "Invalid product ID"], {}, "none")
            /\ UNCHANGED products
       ELSE IF ~storeUp
       THEN /\ Respond("DELETE /api/products/:id", 500, StoreError,
                       {"productsCollection.deleteOne"}, "none")
            /\ UNCHANGED products
       ELSE IF id.key \notin DOMAIN products
       THEN /\ Respond("DELETE /api/products/:id", 404,
                       [error |-> "Product not found"],
                       {"productsCollection.deleteOne"}, "none")
            /\ UNCHANGED products
       ELSE /\ products' = Without(products, id.key)
            /\ Respond("DELETE /api/products/:id", 200,
                       [message |-> "Product deleted successfully"],
                       {"productsCollection.deleteOne"}, "none")
    /\ UNCHANGED nextId
    /\ ProductsFrame

\* updateData: the truthy name and the defined price replace the stored ones;
\* a $set of an empty updateData is a no-op that still matches the document
\* (MongoDB 5.0 and later)
PutProduct(id, name, price) ==
    /\ Serving
    /\ IF ~productsCollection
       THEN /\ Respond("PUT /api/products/:id", 503, DbNotConnected, {}, "none")
            /\ UNCHANGED products
       ELSE IF ~ObjectId_isValid(id)
       THEN /\ Respond("PUT /api/products/:id", 400,
                       [error |-> "Invalid product ID"], {}, "none")
            /\ UNCHANGED products
       ELSE IF ~storeUp
       THEN /\ Respond("PUT /api/products/:id", 500, StoreError,
                       {"productsCollection.updateOne"}, "none")
            /\ UNCHANGED products
       ELSE IF id.key \notin DOMAIN products
       THEN /\ Respond("PUT /api/products/:id", 404,
                       [error |-> "Product not found"],
                       {"productsCollection.updateOne"}, "none")
            /\ UNCHANGED products
       ELSE /\ products' =
                 [products EXCEPT ![id.key] =
                    [@ EXCEPT !.name = IF Falsy(name) THEN @ ELSE name,
                              !.price = IF price = << >> THEN @ ELSE price]]
            /\ Respond("PUT /api/products/:id", 200,
                       [message |-> "Product updated successfully"],
                       {"productsCollection.updateOne"}, "none")
    /\ UNCHANGED nextId
    /\ ProductsFrame

----------------------------------------------------------------------------
(* server.js 213-313: order routes.  A stored order is the request body    *)
(* with its orderNumber; auto records whether the server generated it.    *)

\* 'ORD-' + Date.now()
GenerateOrderNumber(t) == <<"ORD-", t>>

PostOrder(orderNumber) ==
    /\ Serving
    /\ IF ~ordersCollection
       THEN /\ Respond("POST /api/orders", 503, DbNotConnected, {}, "none")
            /\ UNCHANGED <<orders, nextId>>
       ELSE IF ~storeUp
       THEN /\ Respond("POST /api/orders", 500, StoreError,
                       {"ordersCollection.insertOne"}, "none")
            /\ UNCHANGED <<orders, nextId>>
       ELSE /\ nextId <= MaxDocs
            /\ LET order ==
                     [orderNumber |-> IF orderNumber = << >>
                                      THEN GenerateOrderNumber(now)
                                      ELSE orderNumber,
                      auto |-> (orderNumber = << >>),
                      status |-> "pending", updatedAt |-> << >>,
                      paymentStatus |-> Absent, paymentId |-> Absent,
                      paymentMethod |-> Absent]
               IN  /\ orders' = orders @@ (nextId :> order)
                   /\ Respond("POST /api/orders", 201,
                              [_id |-> nextId, doc |-> order],
                              {"ordersCollection.insertOne"}, "none")
            /\ nextId' = nextId + 1
    /\ UNCHANGED pending
    /\ OrdersFrame

\* find({}).sort({createdAt: -1}): the server sets no createdAt on an order,
\* so the sort keeps the natural order
GetOrders ==
    /\ Serving
    /\ IF ~ordersCollection
       THEN Respond("GET /api/orders", 503, DbNotConnected, {}, "none")
       ELSE IF ~storeUp
       THEN Respond("GET /api/orders", 500, StoreError,
                    {"ordersCollection.find"}, "none")
       ELSE Respond("GET /api/orders", 200, [array |-> ToArray(orders)],
                    {"ordersCollection.find"}, "none")
    /\ OnlyResponds

GetOrdersByStatus(status) ==
    /\ Serving
    /\ IF ~ordersCollection
       THEN Respond("GET /api/orders/status/:status", 503, DbNotConnected, {}, "none")
       ELSE IF ~storeUp
       THEN Respond("GET /api/orders/status/:status", 500, StoreError,
                    {"ordersCollection.find"}, "none")
       ELSE Respond("GET /api/orders/status/:status", 200,
                    [array |-> ToArray([i \in {j \in DOMAIN orders :
                                                 orders[j].status = status}
                                          |-> orders[i]])],
                    {"ordersCollection.find"}, "none")
    /\ OnlyResponds

PutOrderStatus(id, status) ==
    /\ Serving
    /\ IF ~ordersCollection
       THEN /\ Respond("PUT /api/orders/:id/status", 503, DbNotConnected, {}, "none")
            /\ UNCHANGED orders
       ELSE IF ~ObjectId_isValid(id)
       THEN /\ Respond("PUT /api/orders/:id/status", 400,
                       [error |-> "Invalid order ID"], {}, "none")
            /\ UNCHANGED orders
       ELSE IF ~storeUp
       THEN /\ Respond("PUT /api/orders/:id/status", 500, StoreError,
                       {"ordersCollection.updateOne"}, "none")
            /\ UNCHANGED orders
       ELSE IF id.key \notin DOMAIN orders
       THEN /\ Respond("PUT /api/orders/:id/status", 404,
                       [error |-> "Order not found"],
                       {"ordersCollection.updateOne"}, "none")
            /\ UNCHANGED orders
       ELSE /\ orders' = [orders EXCEPT ![id.key] =
                            [@ EXCEPT !.status = status, !.updatedAt = <<now>>]]
            /\ Respond("PUT /api/orders/:id/status", 200,
                       [message |-> "Order status updated"],
                       {"ordersCollection.updateOne"}, "none")
    /\ UNCHANGED <<nextId, pending>>
    /\ OrdersFrame

DeleteOrder(id) ==
    /\ Serving
    /\ IF ~ordersCollection
       THEN /\ Respond("DELETE /api/orders/:id", 503, DbNotConnected, {}, "none")
            /\ UNCHANGED orders
       ELSE IF ~ObjectId_isValid(id)
       THEN /\ Respond("DELETE /api/orders/:id", 400,
                       [error |-> "Invalid order ID"], {}, "none")
            /\ UNCHANGED orders
       ELSE IF ~storeUp
       THEN /\ Respond("DELETE /api/orders/:id", 500, StoreError,
                       {"ordersCollection.deleteOne"}, "none")
            /\ UNCHANGED orders
       ELSE IF id.key \notin DOMAIN orders
       THEN /\ Respond("DELETE /api/orders/:id", 404,
                       [error |-> "Order not found"],
                       {"ordersCollection.deleteOne"}, "none")
            /\ UNCHANGED orders
       ELSE /\ orders' = Without(orders, id.key)
            /\ Respond("DELETE /api/orders/:id", 200,
                       [message |-> "Order deleted"],
                       {"ordersCollection.deleteOne"}, "none")
    /\ UNCHANGED <<nextId, pending>>
    /\ OrdersFrame

----------------------------------------------------------------------------
(* server.js 315-350: settings routes *)

GetSettings ==
    /\ Serving
    /\ IF ~settingsCollection
       THEN Respond("GET /api/settings", 503, DbNotConnected, {}, "none")
       ELSE IF ~storeUp
       THEN Respond("GET /api/settings", 500, StoreError,
                    {"settingsCollection.findOne"}, "none")
       ELSE Respond("GET /api/settings", 200,
                    [_id |-> "store",
                     theme |-> IF settings = << >> THEN "default"
                               ELSE settings[1].theme],
                    {"settingsCollection.findOne"}, "none")
    /\ OnlyResponds

PutTheme(theme) ==
    /\ Serving
    /\ IF ~settingsCollection
       THEN /\ Respond("PUT /api/settings/theme", 503, DbNotConnected, {}, "none")
            /\ UNCHANGED settings
       ELSE IF Falsy(theme)
       THEN /\ Respond("PUT /api/settings/theme", 400,
                       [error |-> "Theme is required"], {}, "none")
            /\ UNCHANGED settings
       ELSE IF ~storeUp
       THEN /\ Respond("PUT /api/settings/theme", 500, StoreError,
                       {"settingsCollection.updateOne"}, "none")
            /\ UNCHANGED settings
       ELSE /\ settings' = <<[theme |-> theme, updatedAt |-> <<now>>]>>
            /\ Respond("PUT /api/settings/theme", 200,
                       [message |-> "Theme updated successfully", theme |-> theme],
                       {"settingsCollection.updateOne"}, "none")
    /\ UNCHANGED <<procState, connState, db, productsCollection, ordersCollection,
                   settingsCollection, storeUp, products, orders, nextId, now,
                   pending, probe>>

----------------------------------------------------------------------------
(* server.js 55-75: geocodeAddress; 353-389: POST /api/shipping/calculate. *)
(* key is what the handler reads from process.env.GOOGLE_MAPS_API_KEY:    *)
(* TRUE when the credential is set.                                        *)

\* the coordinates geocodeAddress resolves to, <<coords>>, or << >> for null
geocodeAddress_fallbackOnError(key, outcome) ==
    IF ~key THEN <<[lat |-> 3500, lng |-> -9700]>>
    ELSE IF outcome.kind = "ok" THEN <<outcome.at>>
    ELSE <<[lat |-> 3500, lng |-> -9700]>>

geocodeAddress(key, outcome) ==
    IF ~key THEN <<[lat |-> 3500, lng |-> -9700]>>
    ELSE IF outcome.kind = "ok" THEN <<outcome.at>>
    ELSE << >>

\* the calls geocodeAddress makes
geocodeCalls(key) ==
    {"geocodeAddress"} \cup (IF key THEN {"axios.get"} ELSE {})

ShippingCalculate_noZip(req, key, outcome) ==
    /\ Serving
    /\ IF Falsy(req.address) \/ Falsy(req.city) \/ Falsy(req.state)
       THEN Respond("POST /api/shipping/calculate", 400,
                    [error |-> "Incomplete shipping address"], {}, "none")
       ELSE LET coords == geocodeAddress(key, outcome)
            IN  IF coords = << >>
                THEN Respond("POST /api/shipping/calculate", 400,
                             [error |-> "Unable to validate address"],
                             geocodeCalls(key), "none")
                ELSE LET distance == calculateDistance(STORE_LOCATION.lat,
                                         STORE_LOCATION.lng, coords[1].lat,
                                         coords[1].lng)
                         shippingCost == calculateShippingCost(distance, req.subtotal)
                     IN  Respond("POST /api/shipping/calculate", 200,
                                 [distance |-> MathRound(distance * 10, 8),
                                  shippingCost |-> shippingCost,
                                  message |-> IF shippingCost = 0
                                              THEN <<"Free shipping!">>
                                              ELSE <<"Shipping for",
                                                     MathRound(distance, 8), "miles">>],
                                 geocodeCalls(key)
                                   \cup {"calculateDistance", "calculateShippingCost"},
                                 "none")
    /\ OnlyResponds

ShippingCalculate(req, key, outcome) ==
    /\ Serving
    /\ IF Falsy(req.address) \/ Falsy(req.city) \/ Falsy(req.state)
            \/ Falsy(req.zipCode)
       THEN Respond("POST /api/shipping/calculate", 400,
                    [error |-> "Incomplete shipping address"], {}, "none")
       ELSE LET coords == geocodeAddress(key, outcome)
            IN  IF coords = << >>
                THEN Respond("POST /api/shipping/calculate", 400,
                             [error |-> "Unable to validate address"],
                             geocodeCalls(key), "none")
                ELSE LET distance == calculateDistance(STORE_LOCATION.lat,
                                         STORE_LOCATION.lng, coords[1].lat,
                                         coords[1].lng)
                         shippingCost == calculateShippingCost(distance, req.subtotal)
                     IN  Respond("POST /api/shipping/calculate", 200,
                                 [distance |-> MathRound(distance * 10, 8),
                                  shippingCost |-> shippingCost,
                                  message |-> IF shippingCost = 0
                                              THEN <<"Free shipping!">>
                                              ELSE <<"Shipping for",
                                                     MathRound(distance, 8), "miles">>],
                                 geocodeCalls(key)
                                   \cup {"calculateDistance", "calculateShippingCost"},
                                 "none")
    /\ OnlyResponds

----------------------------------------------------------------------------
(* server.js 392-449: POST /api/payments/square, in two turns: up to the   *)
(* await of paymentsApi.createPayment, and from its settlement on.         *)

PaymentCompleted == {"COMPLETED", "APPROVED"}

\* validation, then createPayment is issued with idempotencyKey orderId
PaymentSubmit(sourceId, amount, orderId) ==
    /\ Serving
    /\ IF Falsy(sourceId) \/ amount \in {<< >>, <<0>>} \/ orderId.len = 0
       THEN /\ Respond("POST /api/payments/square", 400,
                       [error |-> "Missing required payment fields"], {}, "none")
            /\ UNCHANGED pending
       ELSE /\ Cardinality(pending) < MaxPending
            /\ [orderId |-> orderId] \notin pending
            /\ pending' = pending \cup {[orderId |-> orderId]}
            /\ UNCHANGED last
    /\ UNCHANGED <<orders, nextId>>
    /\ OrdersFrame

\* the order update of a completed payment
MarkPaid(doc, paymentId) ==
    [doc EXCEPT !.paymentStatus = "completed", !.paymentId = paymentId,
                !.paymentMethod = "square", !.updatedAt = <<now>>]

\* createPayment settles: it throws (outcome "threw") or reports a status
PaymentSettle_updateFirst(p, outcome, paymentId) ==
    /\ Serving
    /\ p \in pending
    /\ pending' = pending \ {p}
    /\ IF ordersCollection /\ ObjectId_isValid(p.orderId) /\ storeUp
            /\ p.orderId.key \in DOMAIN orders
       THEN orders' = [orders EXCEPT ![p.orderId.key] = MarkPaid(@, paymentId)]
       ELSE orders' = orders
    /\ IF outcome = "threw"
       THEN Respond("POST /api/payments/square", 500,
                    [success |-> FALSE, error |-> "Payment processing failed"],
                    {"paymentsApi.createPayment"}, "threw")
       ELSE IF outcome \in PaymentCompleted
       THEN Respond("POST /api/payments/square", 200,
                    [success |-> TRUE, paymentId |-> paymentId,
                     status |-> outcome,
                     message |-> "Payment processed successfully"],
                    {"paymentsApi.createPayment", "ordersCollection.updateOne"},
                    outcome)
       ELSE Respond("POST /api/payments/square", 400,
                    [success |-> FALSE, message |-> <<"Payment", outcome>>],
                    {"paymentsApi.createPayment", "ordersCollection.updateOne"},
                    outcome)
    /\ UNCHANGED nextId
    /\ OrdersFrame

PaymentSettle(p, outcome, paymentId) ==
    /\ Serving
    /\ p \in pending
    /\ pending' = pending \ {p}
    /\ IF outcome = "threw"
       THEN /\ Respond("POST /api/payments/square", 500,
                       [success |-> FALSE, error |-> "Payment processing failed"],
                       {"paymentsApi.createPayment"}, "threw")
            /\ UNCHANGED orders
       ELSE IF outcome \in PaymentCompleted
       THEN IF ~ordersCollection
            THEN /\ Respond("POST /api/payments/square", 200,
                            [success |-> TRUE, paymentId |-> paymentId,
                             status |-> outcome,
                             message |-> "Payment processed successfully"],
                            {"paymentsApi.createPayment"}, outcome)
                 /\ UNCHANGED orders
            ELSE IF ~ObjectId_isValid(p.orderId)
            THEN \* new ObjectId(orderId) throws
                 /\ Respond("POST /api/payments/square", 500,
                            [success |-> FALSE, error |-> "invalid ObjectId"],
                            {"paymentsApi.createPayment"}, outcome)
                 /\ UNCHANGED orders
            ELSE IF ~storeUp
            THEN /\ Respond("POST /api/payments/square", 500,
                            [success |-> FALSE, error |-> "store operation failed"],
                            {"paymentsApi.createPayment",
                             "ordersCollection.updateOne"}, outcome)
                 /\ UNCHANGED orders
            ELSE /\ orders' =
                      IF p.orderId.key \in DOMAIN orders
                      THEN [orders EXCEPT ![p.orderId.key] = MarkPaid(@, paymentId)]
                      ELSE orders
                 /\ Respond("POST /api/payments/square", 200,
                            [success |-> TRUE, paymentId |-> paymentId,
                             status |-> outcome,
                             message |-> "Payment processed successfully"],
                            {"paymentsApi.createPayment",
                             "ordersCollection.updateOne"}, outcome)
       ELSE /\ Respond("POST /api/payments/square", 400,
                       [success |-> FALSE, message |-> <<"Payment", outcome>>],
                       {"paymentsApi.createPayment"}, outcome)
            /\ UNCHANGED orders
    /\ UNCHANGED nextId
    /\ OrdersFrame

----------------------------------------------------------------------------
(* The server: the steps of connectMongoDB, the environment, the routes *)

Connect ==
    \/ Listen
    \/ ConnectResolve
    \/ ConnectReject
    \/ ConnectVerify
    \/ ConnectInitFind
    \/ ConnectInitInsert

StoreFlips ==
    \/ StoreDown
    \/ StoreBack

PlainRoutes ==
    \/ Health
    \/ PaymentsConfig
    \/ Static
    \/ \E isApi \in BOOLEAN : NotFound(isApi)

ProductRoutes ==
    \/ GetProducts
    \/ \E name \in {Absent, "Vase"}, description \in {Absent, "clay"},
          price \in {<< >>, <<5>>} : PostProduct(name, description, price)
    \/ \E id \in ReqIds : DeleteProduct(id)
    \/ \E id \in ReqIds, name \in {Absent, "Bowl"}, price \in {<< >>, <<7>>} :
          PutProduct(id, name, price)

OrderRoutes ==
    \/ \E orderNumber \in {<< >>} \cup ClientOrderNumbers : PostOrder(orderNumber)
    \/ GetOrders
    \/ \E status \in {"pending", "shipped"} : GetOrdersByStatus(status)
    \/ \E id \in ReqIds : PutOrderStatus(id, "shipped")
    \/ \E id \in ReqIds : DeleteOrder(id)

SettingsRoutes ==
    \/ GetSettings
    \/ \E theme \in {Absent, "dark"} : PutTheme(theme)

ShippingRoutes ==
    \E req \in ShipReqs, key \in BOOLEAN, outcome \in GeoOutcomes :
        ShippingCalculate(req, key, outcome)

PaymentRoutes ==
    \/ \E req \in PaymentReqs : PaymentSubmit(req.sourceId, req.amount, req.orderId)
    \/ \E p \in pending, outcome \in PaymentStatuses \cup {"threw"},
          paymentId \in PaymentIds : PaymentSettle(p, outcome, paymentId)

Next ==
    \/ Connect
    \/ StoreFlips
    \/ Tick
    \/ Sigterm
    \/ PlainRoutes
    \/ ProductRoutes
    \/ OrderRoutes
    \/ SettingsRoutes
    \/ ShippingRoutes
    \/ PaymentRoutes

Spec == Init /\ [][Next]_vars

\* the shipping estimator, with the settings routes and the routes that never
\* touch the store
NextShipping ==
    \/ Connect
    \/ StoreFlips
    \/ Tick
    \/ Sigterm
    \/ PlainRoutes
    \/ SettingsRoutes
    \/ ShippingRoutes

SpecShipping == Init /\ [][NextShipping]_vars

\* the routes over the products and orders collections
NextStore ==
    \/ Connect
    \/ StoreFlips
    \/ ProductRoutes
    \/ OrderRoutes

SpecStore == Init /\ [][NextStore]_vars

\* orders and their payment
NextOrders ==
    \/ Connect
    \/ StoreFlips
    \/ Tick
    \/ Health
    \/ PaymentsConfig
    \/ OrderRoutes
    \/ PaymentRoutes

SpecOrders == Init /\ [][NextOrders]_vars

\* payments of stored orders
NextPayments ==
    \/ Connect
    \/ StoreFlips
    \/ \E orderNumber \in {<< >>} \cup ClientOrderNumbers : PostOrder(orderNumber)
    \/ \E id \in ReqIds : DeleteOrder(id)
    \/ PaymentRoutes

SpecPayments == Init /\ [][NextPayments]_vars

----------------------------------------------------------------------------
(* calculateShippingCost applied to each distance and subtotal *)

InitShippingCost ==
    /\ InitServer
    /\ storeUp
    /\ probe \in {[fn |-> "calculateShippingCost", distance |-> d, subtotal |-> sub,
                   done |-> FALSE, result |-> 0] :
                  d \in 0..MaxDistance, sub \in Subtotals}

ApplyShippingCost ==
    /\ ~probe.done
    /\ probe' = [probe EXCEPT !.done = TRUE,
                              !.result = calculateShippingCost(probe.distance,
                                                               probe.subtotal)]
    /\ UNCHANGED serverVars

SpecShippingCost == InitShippingCost /\ [][ApplyShippingCost]_vars

(* calculateDistance applied to each pair of points of a grid *)

GridLats == {-9000 + (18000 * i) \div GridN : i \in 0..GridN} \cup {3585, 3500}

GridLngs == {-18000 + (36000 * i) \div GridN : i \in 0..GridN} \cup {-10332, -9700}

GridPoints == [lat : GridLats, lng : GridLngs]

InitDistance ==
    /\ InitServer
    /\ storeUp
    /\ probe \in {[fn |-> "calculateDistance", a |-> a, b |-> b, done |-> FALSE,
                   ab |-> 0, ba |-> 0, aa |-> 0] : a \in GridPoints, b \in GridPoints}

ApplyDistance ==
    /\ ~probe.done
    /\ probe' = [probe EXCEPT
                   !.done = TRUE,
                   !.ab = calculateDistance(probe.a.lat, probe.a.lng,
                                            probe.b.lat, probe.b.lng),
                   !.ba = calculateDistance(probe.b.lat, probe.b.lng,
                                            probe.a.lat, probe.a.lng),
                   !.aa = calculateDistance(probe.a.lat, probe.a.lng,
                                            probe.a.lat, probe.a.lng)]
    /\ UNCHANGED serverVars

SpecDistance == InitDistance /\ [][ApplyDistance]_vars

----------------------------------------------------------------------------
(* Properties *)

ShippingRoute == "POST /api/shipping/calculate"

PaymentRoute == "POST /api/payments/square"

\* the last response is an error with this message
ErrorIs(msg) == "error" \in DOMAIN last.body /\ last.body.error = msg

AddressFieldMissing(req) ==
    \E f \in {"address", "city", "state", "zipCode"} : req[f] = Absent

Thm_C2 ==
    [][\A req \in ShipReqs, key \in BOOLEAN, outcome \in GeoOutcomes :
         (AddressFieldMissing(req) /\ ShippingCalculate(req, key, outcome))
           => /\ last'.status = 400
              /\ last'.body = [error |-> "Incomplete shipping address"]
              /\ last'.calls \cap {"geocodeAddress", "axios.get"} = {}]_vars

Wit_C2 ==
    /\ last.route = ShippingRoute
    /\ last.status = 400
    /\ ErrorIs("Incomplete shipping address")
    /\ last.calls = {}

\* C3: with a geocoding credential configured, a complete address whose
\* geocoding throws or yields zero results is answered 400 'Unable to
\* validate address', and no distance or shipping cost is computed or returned.
AddressComplete(req) ==
    \A f \in {"address", "city", "state", "zipCode"} : req[f] \notin {Absent, ""}

Thm_C3 ==
    [][\A req \in ShipReqs, outcome \in GeoOutcomes :
         (/\ AddressComplete(req)
          /\ outcome.kind \in {"throw", "zero"}
          /\ ShippingCalculate(req, TRUE, outcome))
           => /\ last'.status = 400
              /\ last'.body = [error |-> "Unable to validate address"]
              /\ last'.body # [error |-> "Incomplete shipping address"]
              /\ last'.calls \cap {"calculateDistance", "calculateShippingCost"} = {}
              /\ DOMAIN last'.body \cap {"distance", "shippingCost"} = {}]_vars

Wit_C3 ==
    /\ last.route = ShippingRoute
    /\ last.status = 400
    /\ ErrorIs("Unable to validate address")
    /\ "axios.get" \in last.calls

\* the store is not connected: the connection was never attempted, is in
\* progress, or failed
NotConnected ==
    \/ connState \in {"idle", "connecting"}
    \/ connState = "failed" /\ ~db

StoreRoutes ==
    {"GET /api/products", "POST /api/products", "DELETE /api/products/:id",
     "PUT /api/products/:id", "POST /api/orders", "GET /api/orders",
     "GET /api/orders/status/:status", "PUT /api/orders/:id/status",
     "DELETE /api/orders/:id", "GET /api/settings", "PUT /api/settings/theme"}

\* C4: while the store is not connected, every store-dependent call (the
\* product, order and settings routes, and the payment route's order update)
\* is answered 503, and /api/health and /api/payments/config are served.
CE_C4 ==
    NotConnected =>
      /\ (last.route \in StoreRoutes => last.status = 503)
      /\ (last.route = PaymentRoute /\ last.processor \in PaymentCompleted
            => last.status = 503)
      /\ (last.route \in {"GET /api/health", "GET /api/payments/config"}
            => last.status = 200)

\* C5: a payment request whose payment did not complete (missing fields, a
\* processor status other than COMPLETED/APPROVED, the processor call
\* throwing) leaves the stored orders unchanged and issues no order update.
PaymentFieldsMissing(sourceId, amount, orderId) ==
    sourceId = Absent \/ amount = << >> \/ orderId = NoId

PaymentDidNotComplete ==
    \/ \E req \in PaymentReqs :
          /\ PaymentFieldsMissing(req.sourceId, req.amount, req.orderId)
          /\ PaymentSubmit(req.sourceId, req.amount, req.orderId)
    \/ \E p \in pending,
          outcome \in (PaymentStatuses \cup {"threw"}) \ {"COMPLETED", "APPROVED"},
          paymentId \in PaymentIds : PaymentSettle(p, outcome, paymentId)

Thm_C5 ==
    [][PaymentDidNotComplete
         => /\ orders' = orders
            /\ "ordersCollection.updateOne" \notin last'.calls
            /\ last'.route = PaymentRoute
            /\ last'.status \in {400, 500}]_vars

\* a payment of a connected store with a stored order did not complete
Wit_C5 ==
    /\ last.route = PaymentRoute
    /\ last.processor \in {"FAILED", "PENDING", "threw"}
    /\ ordersCollection /\ storeUp
    /\ \E k \in DOMAIN orders : orders[k].paymentStatus = Absent

\* C6: every error response of an API route carries a JSON body with an
\* error field, and a payment error response also carries success: false.
CE_C6 ==
    (last.status >= 400 /\ last.route # "unmatched path")
      => /\ "error" \in DOMAIN last.body
         /\ (last.route = PaymentRoute
               => "success" \in DOMAIN last.body /\ last.body.success = FALSE)

\* C7: with the store connected, an id-addressed request with a syntactically
\* invalid id is answered 400 and issues no store operation, the store
\* contents unchanged; a well-formed id matching no document is answered 404.
StoreConnected == productsCollection /\ ordersCollection /\ storeUp

\* 24 hexadecimal digits
WellFormedId(id) == id.len = 24 /\ id.hex

ProductIdRequest(id) ==
    \/ DeleteProduct(id)
    \/ \E name \in {Absent, "Bowl"}, price \in {<< >>, <<7>>} :
          PutProduct(id, name, price)

OrderIdRequest(id) ==
    \/ PutOrderStatus(id, "shipped")
    \/ DeleteOrder(id)

Thm_C7 ==
    [][\A id \in ReqIds :
         /\ (StoreConnected /\ ~WellFormedId(id)
               /\ (ProductIdRequest(id) \/ OrderIdRequest(id)))
              => /\ last'.status = 400
                 /\ last'.calls = {}
                 /\ products' = products
                 /\ orders' = orders
                 /\ settings' = settings
         /\ (StoreConnected /\ WellFormedId(id) /\ id.key \notin DOMAIN products
               /\ ProductIdRequest(id))
              => last'.status = 404 /\ products' = products
         /\ (StoreConnected /\ WellFormedId(id) /\ id.key \notin DOMAIN orders
               /\ OrderIdRequest(id))
              => last'.status = 404 /\ orders' = orders]_vars

\* an invalid id was refused while the connected store held a product
Wit_C7 ==
    /\ last.route = "DELETE /api/products/:id"
    /\ last.status = 400
    /\ ErrorIs("Invalid product ID")
    /\ StoreConnected
    /\ DOMAIN products # {}

\* C8: calculateDistance is symmetric, and the distance from a point to
\* itself is 0.
Thm_C8 == probe.done => (probe.ab = probe.ba /\ probe.ab >= 0 /\ probe.aa = 0)

Wit_C8 ==
    /\ probe.done
    /\ probe.a.lat # probe.b.lat
    /\ probe.a.lng # probe.b.lng
    /\ probe.ab > 0

\* C9: any two stored orders created without an orderNumber carry distinct
\* generated order numbers, and a client's orderNumber is stored unchanged.
CE_C9 ==
    /\ \A i \in DOMAIN orders, j \in DOMAIN orders :
          (i # j /\ orders[i].auto /\ orders[j].auto)
            => orders[i].orderNumber # orders[j].orderNumber
    /\ \A i \in DOMAIN orders :
          ~orders[i].auto => orders[i].orderNumber \in ClientOrderNumbers

\* C10: whenever the processor reports the payment COMPLETED or APPROVED the
\* request is answered 200 with success: true and the order orderId names is
\* marked paid with that paymentId, whatever the orderId and the store's state.
CE_C10 ==
    [][\A p \in pending, outcome \in PaymentCompleted, paymentId \in PaymentIds :
         PaymentSettle(p, outcome, paymentId)
           => /\ last'.status = 200
              /\ last'.body.success = TRUE
              /\ (WellFormedId(p.orderId) /\ p.orderId.key \in DOMAIN orders
                    => /\ orders'[p.orderId.key].paymentStatus = "completed"
                       /\ orders'[p.orderId.key].paymentId = paymentId)]_vars

====
